---- MODULE Spec2Model ----
(***************************************************************************)
(* Model of the QuantumFS client library (QFSClient): the CommandBuffer,   *)
(* the api-file path resolution, the write-then-read exchange on the api   *)
(* file and the check of the common JSON response envelope.                *)
(***************************************************************************)
EXTENDS Integers, Sequences, FiniteSets, TLC

VARIABLES
    data,       \* CommandBuffer::data of the buffer under test
    maxSize,    \* size beyond which std::vector::insert throws
    appended,   \* history: blocks successfully appended since the last reset
    bufCall,    \* history: the last CommandBuffer call, its input and result
    segs,       \* the directories from the root down to the working directory
    cwd,        \* what getcwd() returns: a string, or <<>> for NULL
    fs,         \* the entry named "api" of each directory from the root to cwd
    path,       \* ApiImpl::path
    api_inode_id,   \* ApiImpl::api_inode_id
    pathCall,   \* history: the last DeterminePath call: result, paths lstat()ed
    is_open,    \* ApiImpl::file.is_open()
    state,      \* ApiImpl::file.rdstate(): a set of eofbit, failbit, badbit
    content,    \* the bytes of the api file
    send_test_hook, \* ApiImpl::send_test_hook: "NULL" or "hook"
    response,   \* the caller's CommandBuffer for responses
    chanCall,   \* history: the last call on the handle, its stages and result
    doc,        \* the response handed to CheckCommonApiResponse: text and size
    context,    \* the JSON value held by the ApiContext (NULL when none)
    jsonCall,   \* history: the last CheckCommonApiResponse call and its result
    apiCall     \* history: the last workspace call, its input, stages and result

bufVars == <<data, maxSize, appended, bufCall>>

pathVars == <<segs, cwd, fs, path, api_inode_id, pathCall>>

chanVars == <<is_open, state, content, send_test_hook, response, chanCall>>

jsonVars == <<doc, context, jsonCall>>

apiVars == <<apiCall>>

vars == <<data, maxSize, appended, bufCall, segs, cwd, fs, path, api_inode_id, pathCall,
          is_open, state, content, send_test_hook, response, chanCall,
          doc, context, jsonCall, apiCall>>

(***************************************************************************)
(* Bounds                                                                  *)
(***************************************************************************)
MaxBufSize == 3      \* the allocation limit used for the buffer alone
MaxBlock == 2        \* longest block or string handed to the buffer
MaxByte == 1         \* bytes are 0..MaxByte; 0 is the string terminator
MaxAppends == 2      \* appends followed between two resets
MaxDepth == 2        \* deepest working directory

Bytes == 0..MaxByte
Chars == 1..MaxByte

RECURSIVE SeqsUpTo(_, _)
SeqsUpTo(S, n) ==
    IF n = 0 THEN {<<>>}
    ELSE LET shorter == SeqsUpTo(S, n - 1)
         IN  shorter \cup {Append(s, x) : s \in {t \in shorter : Len(t) = n - 1}, x \in S}

Blocks == SeqsUpTo(Bytes, MaxBlock)

\* A C string in memory: characters, the terminator, and whatever follows it.
CStrings == {s \o <<0>> \o t : s \in SeqsUpTo(Chars, MaxBlock), t \in SeqsUpTo(Bytes, 1)}

(***************************************************************************)
(* CommandBuffer                                                           *)
(***************************************************************************)
Data(d) == d

Size(d) == Len(d)

ResetKeepsData(d) == d

Reset(d) == <<>>

BufAppendPartial(d, block, cap) ==
    IF Len(d) + Len(block) > cap
    THEN [data |-> d \o SubSeq(block, 1, cap - Len(d)), err |-> "kBufferTooBig"]
    ELSE [data |-> d \o block, err |-> "kSuccess"]

\* std::vector::insert at the end: all of the block or an exception
BufAppend(d, block, cap) ==
    IF Len(d) + Len(block) > cap
    THEN [data |-> d, err |-> "kBufferTooBig"]
    ELSE [data |-> d \o block, err |-> "kSuccess"]

RECURSIVE strlen(_)
strlen(mem) == IF Head(mem) = 0 THEN 0 ELSE 1 + strlen(Tail(mem))

CopyStringNoClear(d, mem, cap) ==
    BufAppend(d, SubSeq(mem, 1, 1 + strlen(mem)), cap)

CopyString(d, mem, cap) ==
    BufAppend(Reset(d), SubSeq(mem, 1, 1 + strlen(mem)), cap)

RECURSIVE Flatten(_)
Flatten(blocks) ==
    IF blocks = <<>> THEN <<>> ELSE Head(blocks) \o Flatten(Tail(blocks))

\* JSON values: [type, int, fields]; fields maps the names of an object's
\* members to their values
Json(type, int, fields) == [type |-> type, int |-> int, fields |-> fields]

NullJson == Json("NULL", 0, <<>>)

NoDoc == [wellformed |-> FALSE, value |-> NullJson, size |-> 0]

NoJsonCall == [op |-> "none", code |-> "kSuccess", field |-> "none"]

JsonIdle == doc = NoDoc /\ context = NullJson /\ jsonCall = NoJsonCall

NoApiCall ==
    [op |-> "none", root |-> <<>>, err |-> "kSuccess", stages |-> <<>>, out |-> <<>>,
     copy |-> "notrun", field |-> "none"]

ApiIdle == apiCall = NoApiCall

NoChanCall ==
    [op |-> "none", err |-> "kSuccess", events |-> <<>>,
     stages |-> [open |-> "notrun", write |-> "notrun", hook |-> "notrun", read |-> "notrun"],
     step |-> "none", afterExchange |-> FALSE]

NoCall == [op |-> "none", arg |-> <<>>, err |-> "kSuccess", before |-> <<>>]

InitBuf ==
    /\ data = <<>>
    /\ maxSize \in {MaxBufSize - 1, MaxBufSize}
    /\ appended = <<>>
    /\ bufCall = NoCall
    /\ segs = <<>>
    /\ cwd = <<"/">>
    /\ fs = <<>>
    /\ path = <<>>
    /\ api_inode_id = 0
    /\ pathCall = [op |-> "none", err |-> "kSuccess", examined |-> <<>>]
    /\ is_open = FALSE
    /\ state = {}
    /\ content = <<>>
    /\ send_test_hook = "NULL"
    /\ response = <<>>
    /\ chanCall = NoChanCall
    /\ JsonIdle
    /\ ApiIdle

DoReset ==
    /\ data' = Reset(data)
    /\ appended' = <<>>
    /\ bufCall' = [op |-> "Reset", arg |-> <<>>, err |-> "kSuccess", before |-> data]
    /\ UNCHANGED <<maxSize, pathVars, chanVars, jsonVars, apiVars>>

DoAppend ==
    \E block \in Blocks :
        LET r == BufAppend(data, block, maxSize)
        IN  /\ Len(appended) < MaxAppends
            /\ data' = r.data
            /\ appended' = IF r.err = "kSuccess" THEN Append(appended, block) ELSE appended
            /\ bufCall' = [op |-> "Append", arg |-> block, err |-> r.err, before |-> data]
            /\ UNCHANGED <<maxSize, pathVars, chanVars, jsonVars, apiVars>>

DoCopyString ==
    \E mem \in CStrings :
        LET r == CopyString(data, mem, maxSize)
            s == SubSeq(mem, 1, 1 + strlen(mem))
        IN  /\ data' = r.data
            /\ appended' = IF r.err = "kSuccess" THEN <<s>> ELSE <<>>
            /\ bufCall' = [op |-> "CopyString", arg |-> mem, err |-> r.err, before |-> data]
            /\ UNCHANGED <<maxSize, pathVars, chanVars, jsonVars, apiVars>>

(***************************************************************************)
(* DeterminePath: strings are sequences of characters                      *)
(***************************************************************************)
kApiPath == <<"a", "p", "i">>

kInodeIdApi == 2

\* names a directory may have; one of them is the name of the api file
SegNames == {<<"d">>, kApiPath}

Inodes == {kInodeIdApi, kInodeIdApi + 1}

NoEntry == [kind |-> "none", ino |-> 0]

\* what may be found under the name "api" in a directory
Entries == {NoEntry} \cup [kind : {"reg", "lnk", "dir", "other"}, ino : Inodes]

Front(seq) == SubSeq(seq, 1, Len(seq) - 1)

Last(seq) == seq[Len(seq)]

Prefixes(seq) == {SubSeq(seq, 1, k) : k \in 0..Len(seq)}

\* the length of the longest prefix of str free of the delimiter
RECURSIVE TokenLen(_, _)
TokenLen(str, delim) ==
    IF str = <<>> \/ Head(str) = delim THEN 0 ELSE 1 + TokenLen(Tail(str), delim)

\* util::Split: the non-empty tokens of str between delimiters
RECURSIVE Split(_, _)
Split(str, delim) ==
    IF str = <<>> THEN <<>>
    ELSE IF Head(str) = delim THEN Split(Tail(str), delim)
    ELSE LET n == TokenLen(str, delim)
         IN  <<SubSeq(str, 1, n)>> \o Split(SubSeq(str, n + 1, Len(str)), delim)

\* util::Join: the pieces with the delimiter between each two
RECURSIVE Join(_, _)
Join(pieces, delim) ==
    IF pieces = <<>> THEN <<>>
    ELSE IF Len(pieces) = 1 THEN Head(pieces)
    ELSE Head(pieces) \o <<delim>> \o Join(Tail(pieces), delim)

\* the kernel's walk of an absolute path: its components, empty ones skipped
RECURSIVE namei(_, _)
namei(str, cur) ==
    IF str = <<>> THEN (IF cur = <<>> THEN <<>> ELSE <<cur>>)
    ELSE IF Head(str) = "/"
         THEN (IF cur = <<>> THEN <<>> ELSE <<cur>>) \o namei(Tail(str), <<>>)
         ELSE namei(Tail(str), Append(cur, Head(str)))

\* lstat() of a path whose last component is "api"
lstat(filesys, p) ==
    LET comps == namei(p, <<>>)
        dir == Front(comps)
    IN  IF /\ comps # <<>>
           /\ Last(comps) = kApiPath
           /\ dir \in DOMAIN filesys
           /\ filesys[dir].kind # "none"
        THEN [rc |-> 0, st_mode |-> filesys[dir].kind, st_ino |-> filesys[dir].ino]
        ELSE [rc |-> -1, st_mode |-> "none", st_ino |-> 0]

S_ISREG(st) == st.st_mode = "reg"

S_ISLNK(st) == st.st_mode = "lnk"

IsApiFileByInodeOnly(st, inode) == st.rc = 0 /\ st.st_ino = inode

\* the test of lines 243-246
IsApiFile(st, inode) ==
    /\ st.rc = 0
    /\ S_ISREG(st) \/ S_ISLNK(st)
    /\ st.st_ino = inode

AtRootStopsEarly(directories) == Len(directories) <= 1

\* the test of line 258
AtRoot(directories) == Len(directories) = 0

\* the loop of lines 237-266
RECURSIVE WalkUp(_, _, _, _)
WalkUp(directories, filesys, inode, examined) ==
    LET p == <<"/">> \o Join(directories, "/") \o <<"/">> \o kApiPath
        st == lstat(filesys, p)
        seen == Append(examined, p)
    IN  IF IsApiFile(st, inode)
        THEN [err |-> "kSuccess", found |-> TRUE, path |-> p, examined |-> seen]
        ELSE IF AtRoot(directories)
        THEN [err |-> "kCantFindApiFile", found |-> FALSE, path |-> <<>>, examined |-> seen]
        ELSE WalkUp(Front(directories), filesys, inode, seen)

\* the result of DeterminePath and the path it leaves in the handle
DeterminePath(curPath, getcwd, filesys, inode) ==
    IF getcwd = <<>>
    THEN [err |-> "kDontKnowCwd", path |-> curPath, examined |-> <<>>]
    ELSE LET r == WalkUp(Split(getcwd, "/"), filesys, inode, <<>>)
         IN  [err |-> r.err,
              path |-> IF r.found THEN r.path ELSE curPath,
              examined |-> r.examined]

\* the string getcwd() returns for a working directory
CwdString(dirs) == IF dirs = <<>> THEN <<"/">> ELSE <<"/">> \o Join(dirs, "/")

\* a directory that is on the way to the working directory is a directory
TreeOk(dirs, filesys) ==
    \A k \in 1..Len(dirs) :
        dirs[k] = kApiPath => filesys[SubSeq(dirs, 1, k - 1)].kind = "dir"

InitPath ==
    /\ segs \in SeqsUpTo(SegNames, MaxDepth)
    /\ cwd \in {CwdString(segs), <<>>}
    /\ fs \in [Prefixes(segs) -> Entries]
    /\ TreeOk(segs, fs)
    /\ path = <<>>
    /\ api_inode_id = kInodeIdApi
    /\ pathCall = [op |-> "none", err |-> "kSuccess", examined |-> <<>>]
    /\ data = <<>>
    /\ maxSize = MaxBufSize
    /\ appended = <<>>
    /\ bufCall = NoCall
    /\ is_open = FALSE
    /\ state = {}
    /\ content = <<>>
    /\ send_test_hook = "NULL"
    /\ response = <<>>
    /\ chanCall = NoChanCall
    /\ JsonIdle
    /\ ApiIdle

DoDeterminePath ==
    LET r == DeterminePath(path, cwd, fs, api_inode_id)
    IN  /\ path' = r.path
        /\ pathCall' = [op |-> "DeterminePath", err |-> r.err, examined |-> r.examined]
        /\ UNCHANGED <<segs, cwd, fs, api_inode_id, bufVars, chanVars, jsonVars, apiVars>>

NextPath == DoDeterminePath

SpecPath == InitPath /\ [][NextPath]_vars

(***************************************************************************)
(* The std::fstream of the handle (C++11 semantics)                        *)
(***************************************************************************)
fail(st) == "failbit" \in st \/ "badbit" \in st

eof(st) == "eofbit" \in st

good(st) == st = {}

clearKeepsState(st) == st

\* basic_ios::clear()
clear(st) == {}

\* basic_fstream::open on a closed stream: clear() on success, else failbit
fstream_open(st, ok) ==
    IF ok THEN [is_open |-> TRUE, state |-> clear(st)]
    ELSE [is_open |-> FALSE, state |-> st \cup {"failbit"}]

\* basic_fstream::close: the stream is closed; failbit when closing fails
fstream_close(st, ok) ==
    [is_open |-> FALSE, state |-> IF ok THEN st ELSE st \cup {"failbit"}]

seekpClearsState(st, ok) == IF ok THEN {} ELSE {"failbit"}

\* basic_ostream::seekp(0): nothing is done on a failed stream
seekp(st, ok) ==
    IF fail(st) THEN st
    ELSE IF ok THEN st ELSE st \cup {"failbit"}

\* basic_ostream::write at offset pos: the bytes of the file afterwards
Overwrite(bytes, pos, block) ==
    SubSeq(bytes, 1, pos) \o block \o SubSeq(bytes, pos + Len(block) + 1, Len(bytes))

write(st, bytes, pos, block, ok) ==
    IF ~good(st) THEN [state |-> st \cup {"failbit"}, content |-> bytes]
    ELSE IF ok THEN [state |-> st, content |-> Overwrite(bytes, pos, block)]
    ELSE [state |-> st \cup {"badbit"}, content |-> bytes]

\* basic_ostream::flush
flush(st, ok) ==
    IF ~good(st) THEN st \cup {"failbit"}
    ELSE IF ok THEN st ELSE st \cup {"badbit"}

\* basic_istream::seekg(0): eofbit is cleared first
seekg(st, ok) ==
    LET s1 == st \ {"eofbit"}
    IN  IF fail(s1) THEN s1
        ELSE IF ok THEN s1 ELSE s1 \cup {"failbit"}

Min(a, b) == IF a < b THEN a ELSE b

\* basic_istream::read of n bytes at offset pos: eofbit and failbit when
\* fewer than n are left, badbit when reading fails
read(st, bytes, pos, n, ok) ==
    IF ~good(st) THEN [state |-> st \cup {"failbit"}, gcount |-> 0]
    ELSE IF ~ok THEN [state |-> st \cup {"badbit"}, gcount |-> 0]
    ELSE LET got == Min(n, Len(bytes) - pos)
         IN  [state |-> IF got < n THEN st \cup {"eofbit", "failbit"} ELSE st,
              gcount |-> got]

(***************************************************************************)
(* The handle: h = [path, is_open, state]; env names the step of the call  *)
(* that the environment makes fail (env.step, and env.at for the read      *)
(* that fails) and what the api file answers after a write (env.reply)     *)
(***************************************************************************)
ChunkSize == 4096

PathUnknownAlways(h) == TRUE

\* the test of line 110
PathUnknown(h) == Len(h.path) = 0

\* lines 119-127: the result of opening the stream
OpenedFile(h, f, ev) ==
    [h |-> [h EXCEPT !.is_open = f.is_open, !.state = f.state],
     err |-> IF fail(f.state) THEN "kCantOpenApiFile" ELSE "kSuccess",
     events |-> Append(ev, "open")]

OpenFileReopens(h, ev, env) ==
    OpenedFile(h, fstream_open(h.state, env.step # "open"), ev)

\* lines 118-127: the stream is opened unless it is open
OpenFile(h, ev, env) ==
    IF ~h.is_open
    THEN OpenedFile(h, fstream_open(h.state, env.step # "open"), ev)
    ELSE [h |-> h, err |-> "kSuccess", events |-> ev]

\* lines 112-116: a failed resolution is returned
OpenResolved(h, dp, env) ==
    IF dp.err # "kSuccess"
    THEN [h |-> [h EXCEPT !.path = dp.path], err |-> dp.err, events |-> <<"DeterminePath">>]
    ELSE OpenFile([h EXCEPT !.path = dp.path], <<"DeterminePath">>, env)

Open(h, getcwd, filesys, inode, env) ==
    IF PathUnknown(h)
    THEN OpenResolved(h, DeterminePath(h.path, getcwd, filesys, inode), env)
    ELSE OpenFile(h, <<>>, env)

Closed(h, f) ==
    [h |-> [h EXCEPT !.is_open = f.is_open, !.state = f.state],
     err |-> "kSuccess", events |-> <<"close">>]

CloseUnlessFailed(h, env) ==
    IF h.is_open /\ ~fail(h.state)
    THEN Closed(h, fstream_close(h.state, env.step # "close"))
    ELSE [h |-> h, err |-> "kSuccess", events |-> <<>>]

Close(h, env) ==
    IF h.is_open
    THEN Closed(h, fstream_close(h.state, env.step # "close"))
    ELSE [h |-> h, err |-> "kSuccess", events |-> <<>>]

\* lines 172-177
Flushed(h, w, s3) ==
    [h |-> [h EXCEPT !.state = s3], content |-> w.content,
     err |-> IF fail(s3) THEN "kApiFileFlushFail" ELSE "kSuccess",
     events |-> <<"seekp", "write", "flush">>]

WrittenFlushesAnyway(h, w, env) ==
    Flushed(h, w, flush(w.state, env.step # "flush"))

\* lines 167-172
Written(h, w, env) ==
    IF fail(w.state)
    THEN [h |-> [h EXCEPT !.state = w.state], content |-> w.content,
          err |-> "kApiFileWriteFail", events |-> <<"seekp", "write">>]
    ELSE Flushed(h, w, flush(w.state, env.step # "flush"))

\* lines 162-167
SeekedP(h, bytes, command, s1, env) ==
    IF fail(s1)
    THEN [h |-> [h EXCEPT !.state = s1], content |-> bytes,
          err |-> "kApiFileSeekFail", events |-> <<"seekp">>]
    ELSE Written(h, write(s1, bytes, 0, SubSeq(Data(command), 1, Size(command)),
                          env.step # "write"), env)

WriteCommand(h, bytes, command, env) ==
    IF ~h.is_open
    THEN [h |-> h, content |-> bytes, err |-> "kApiFileNotOpen", events |-> <<>>]
    ELSE SeekedP(h, bytes, command, seekp(h.state, env.step # "seekp"), env)

\* the loop of lines 196-210 and the lines after it; k counts the reads
RECURSIVE ReadLoop(_, _, _, _, _, _, _)

\* lines 205-210
AppendedChunk(r, a, bytes, pos, cap, env, k) ==
    IF a.err # "kSuccess"
    THEN [state |-> r.state, response |-> a.data, err |-> a.err, reads |-> k + 1]
    ELSE ReadLoop(r.state, bytes, pos + r.gcount, a.data, cap, env, k + 1)

\* lines 199-205
ReadChunk(r, bytes, pos, buf, cap, env, k) ==
    IF fail(r.state) /\ ~eof(r.state)
    THEN [state |-> r.state, response |-> buf, err |-> "kApiFileReadFail", reads |-> k + 1]
    ELSE AppendedChunk(r, BufAppend(buf, SubSeq(bytes, pos + 1, pos + r.gcount), cap),
                       bytes, pos, cap, env, k)

ReadLoop(st, bytes, pos, buf, cap, env, k) ==
    IF eof(st)
    THEN [state |-> clear(st), response |-> buf, err |-> "kSuccess", reads |-> k]
    ELSE ReadChunk(read(st, bytes, pos, ChunkSize, ~(env.step = "read" /\ env.at = k + 1)),
                   bytes, pos, buf, cap, env, k)

ReadDone(h, l) ==
    [h |-> [h EXCEPT !.state = l.state], response |-> l.response, err |-> l.err,
     events |-> <<"seekg">> \o [i \in 1..l.reads |-> "read"]]

SeekedGKeepsResponse(h, bytes, resp, cap, s1, env) ==
    IF fail(s1)
    THEN [h |-> [h EXCEPT !.state = s1], response |-> resp,
          err |-> "kApiFileSeekFail", events |-> <<"seekg">>]
    ELSE ReadDone(h, ReadLoop(s1, bytes, 0, resp, cap, env, 0))

\* lines 187-216
SeekedG(h, bytes, resp, cap, s1, env) ==
    IF fail(s1)
    THEN [h |-> [h EXCEPT !.state = s1], response |-> resp,
          err |-> "kApiFileSeekFail", events |-> <<"seekg">>]
    ELSE ReadDone(h, ReadLoop(s1, bytes, 0, Reset(resp), cap, env, 0))

ReadResponseResetsFirst(h, bytes, resp, cap, env) ==
    IF ~h.is_open
    THEN [h |-> h, response |-> Reset(resp), err |-> "kApiFileNotOpen", events |-> <<>>]
    ELSE SeekedG(h, bytes, resp, cap, seekg(h.state, env.step # "seekg"), env)

ReadResponse(h, bytes, resp, cap, env) ==
    IF ~h.is_open
    THEN [h |-> h, response |-> resp, err |-> "kApiFileNotOpen", events |-> <<>>]
    ELSE SeekedG(h, bytes, resp, cap, seekg(h.state, env.step # "seekg"), env)

\* TestHook::SendTestHook: the error the test returns
SendTestHook(env) == IF env.step = "hook" THEN "kJsonEncodingError" ELSE "kSuccess"

\* the bytes of the api file once the written command has been taken by the
\* filesystem (or replaced by the test hook): kept, or an answer
Answered(bytes, env) == IF env.reply.keep THEN bytes ELSE env.reply.bytes

NotRun == "notrun"

\* line 154
SendRead(o, w, hk, ev, answered, r) ==
    [h |-> r.h, content |-> answered, response |-> r.response, err |-> r.err,
     events |-> o.events \o w.events \o ev \o r.events,
     stages |-> [open |-> o.err, write |-> w.err, hook |-> hk, read |-> r.err]]

\* lines 147-154
SendHooked(o, w, hk, ev, answered, resp, cap, env) ==
    IF hk # NotRun /\ hk # "kSuccess"
    THEN [h |-> w.h, content |-> answered, response |-> resp, err |-> hk,
          events |-> o.events \o w.events \o ev,
          stages |-> [open |-> o.err, write |-> w.err, hook |-> hk, read |-> NotRun]]
    ELSE SendRead(o, w, hk, ev, answered, ReadResponse(w.h, answered, resp, cap, env))

SendWrittenIgnoresError(o, w, resp, cap, hook, env) ==
    IF hook # "NULL"
    THEN SendHooked(o, w, SendTestHook(env), <<"hook">>, Answered(w.content, env),
                    resp, cap, env)
    ELSE SendHooked(o, w, NotRun, <<>>, Answered(w.content, env), resp, cap, env)

\* lines 142-152
SendWritten(o, w, resp, cap, hook, env) ==
    IF w.err # "kSuccess"
    THEN [h |-> w.h, content |-> w.content, response |-> resp, err |-> w.err,
          events |-> o.events \o w.events,
          stages |-> [open |-> o.err, write |-> w.err, hook |-> NotRun, read |-> NotRun]]
    ELSE IF hook # "NULL"
    THEN SendHooked(o, w, SendTestHook(env), <<"hook">>, Answered(w.content, env),
                    resp, cap, env)
    ELSE SendHooked(o, w, NotRun, <<>>, Answered(w.content, env), resp, cap, env)

\* lines 137-142
SendOpened(o, bytes, command, resp, cap, hook, env) ==
    IF o.err # "kSuccess"
    THEN [h |-> o.h, content |-> bytes, response |-> resp, err |-> o.err,
          events |-> o.events,
          stages |-> [open |-> o.err, write |-> NotRun, hook |-> NotRun, read |-> NotRun]]
    ELSE SendWritten(o, WriteCommand(o.h, bytes, command, env), resp, cap, hook, env)

SendCommand(h, bytes, command, resp, cap, hook, getcwd, filesys, inode, env) ==
    SendOpened(Open(h, getcwd, filesys, inode, env), bytes, command, resp, cap, hook, env)


(***************************************************************************)
(* The handle's specification                                              *)
(***************************************************************************)
MaxReply == 1        \* replies are up to MaxBufSize + MaxReply bytes long

OpenSteps == {"none", "open"}

CloseSteps == {"none", "close"}

WriteSteps == {"none", "seekp", "write", "flush"}

ReadSteps == {"none", "seekg", "read"}

SendSteps == OpenSteps \cup WriteSteps \cup {"hook"} \cup ReadSteps

\* the api file keeps the command, or answers: at or beyond the buffer's limit
Replies ==
    {[keep |-> TRUE, bytes |-> <<>>],
     [keep |-> FALSE, bytes |-> [i \in 1..MaxBufSize |-> 1]],
     [keep |-> FALSE, bytes |-> [i \in 1..(MaxBufSize + MaxReply) |-> 1]]}

NoReply == [keep |-> TRUE, bytes |-> <<>>]

Envs(steps, replies) == [step : steps, at : {1}, reply : replies]

MaxChunks == 2       \* full chunks in the longest api file read

Commands == {<<1, 0>>}

NoStages == [open |-> NotRun, write |-> NotRun, hook |-> NotRun, read |-> NotRun]

\* a ReadResponse or SendCommand that returned kSuccess
Exchanged(call) == call.op \in {"ReadResponse", "SendCommand"} /\ call.err = "kSuccess"

Called(op, err, events, stages, env) ==
    [op |-> op, err |-> err, events |-> events, stages |-> stages, step |-> env.step,
     afterExchange |-> Exchanged(chanCall)]

H == [path |-> path, is_open |-> is_open, state |-> state]

\* the handle has not been destroyed
Alive == chanCall.op # "~ApiImpl"

\* the path given to ApiImpl(const char *path)
GivenPath == <<"/", "t">>

InitHandle ==
    /\ segs \in SeqsUpTo({<<"d">>}, 1)
    /\ cwd \in {CwdString(segs), <<>>}
    /\ fs \in [Prefixes(segs) -> {NoEntry, [kind |-> "reg", ino |-> kInodeIdApi]}]
    /\ cwd = <<>> => \A d \in DOMAIN fs : fs[d] = NoEntry
    /\ path \in {<<>>, GivenPath}
    /\ path = GivenPath => cwd # <<>> /\ \A d \in DOMAIN fs : fs[d] # NoEntry
    /\ api_inode_id = kInodeIdApi
    /\ pathCall = [op |-> "none", err |-> "kSuccess", examined |-> <<>>]
    /\ is_open = FALSE
    /\ state = {}
    /\ content = <<>>
    /\ send_test_hook \in {"NULL", "hook"}
    \* below the root: a handle without a path or a hook, in a known directory
    /\ segs # <<>> => (cwd # <<>> /\ path = <<>> /\ send_test_hook = "NULL")
    /\ response = <<>>
    /\ chanCall = NoChanCall
    /\ data = <<>>
    /\ maxSize = MaxBufSize
    /\ appended = <<>>
    /\ bufCall = NoCall
    /\ JsonIdle
    /\ ApiIdle

DoOpen ==
    \E env \in Envs(OpenSteps, {NoReply}) :
        LET r == Open(H, cwd, fs, api_inode_id, env)
        IN  /\ Alive
            /\ path' = r.h.path
            /\ is_open' = r.h.is_open
            /\ state' = r.h.state
            /\ chanCall' = Called("Open", r.err, r.events, NoStages, env)
            /\ UNCHANGED <<content, response, send_test_hook>>
            /\ UNCHANGED <<segs, cwd, fs, api_inode_id, pathCall, bufVars, jsonVars, apiVars>>

DoClose ==
    \E env \in Envs(CloseSteps, {NoReply}) :
        LET r == Close(H, env)
        IN  /\ Alive
            /\ is_open' = r.h.is_open
            /\ state' = r.h.state
            /\ chanCall' = Called("Close", r.err, r.events, NoStages, env)
            /\ UNCHANGED <<path, content, response, send_test_hook>>
            /\ UNCHANGED <<segs, cwd, fs, api_inode_id, pathCall, bufVars, jsonVars, apiVars>>

DoWriteCommand ==
    \E env \in Envs(WriteSteps, {NoReply}), command \in Commands :
        LET r == WriteCommand(H, content, command, env)
        IN  /\ Alive
            /\ state' = r.h.state
            /\ content' = r.content
            /\ chanCall' = Called("WriteCommand", r.err, r.events, NoStages, env)
            /\ UNCHANGED <<path, is_open, response, send_test_hook>>
            /\ UNCHANGED <<segs, cwd, fs, api_inode_id, pathCall, bufVars, jsonVars, apiVars>>

DoReadResponse ==
    \E env \in Envs(ReadSteps, {NoReply}) :
        LET r == ReadResponse(H, content, response, maxSize, env)
        IN  /\ Alive
            /\ state' = r.h.state
            /\ response' = r.response
            /\ chanCall' = Called("ReadResponse", r.err, r.events, NoStages, env)
            /\ UNCHANGED <<path, is_open, content, send_test_hook>>
            /\ UNCHANGED <<segs, cwd, fs, api_inode_id, pathCall, bufVars, jsonVars, apiVars>>

DoSendCommand ==
    \E env \in Envs(SendSteps, Replies), command \in Commands :
        LET r == SendCommand(H, content, command, response, maxSize, send_test_hook,
                             cwd, fs, api_inode_id, env)
        IN  /\ Alive
            /\ path' = r.h.path
            /\ is_open' = r.h.is_open
            /\ state' = r.h.state
            /\ content' = r.content
            /\ response' = r.response
            /\ chanCall' = Called("SendCommand", r.err, r.events, r.stages, env)
            /\ UNCHANGED send_test_hook
            /\ UNCHANGED <<segs, cwd, fs, api_inode_id, pathCall, bufVars, jsonVars, apiVars>>

\* ~ApiImpl: the handle is closed and used no more
DoDestroy ==
    \E env \in Envs(CloseSteps, {NoReply}) :
        LET r == Close(H, env)
        IN  /\ Alive
            /\ is_open' = r.h.is_open
            /\ state' = r.h.state
            /\ chanCall' = Called("~ApiImpl", r.err, r.events, NoStages, env)
            /\ UNCHANGED <<path, content, response, send_test_hook>>
            /\ UNCHANGED <<segs, cwd, fs, api_inode_id, pathCall, bufVars, jsonVars, apiVars>>

\* the process changes its working directory to the parent
Chdir ==
    /\ Alive
    /\ segs # <<>>
    /\ segs' = Front(segs)
    /\ cwd' = IF cwd = <<>> THEN <<>> ELSE CwdString(Front(segs))
    /\ chanCall' = [NoChanCall EXCEPT !.op = "chdir"]
    /\ UNCHANGED <<is_open, state, content, send_test_hook, response>>
    /\ UNCHANGED <<fs, path, api_inode_id, pathCall, bufVars, jsonVars, apiVars>>

(***************************************************************************)
(* ReadResponse on api files of one byte to several chunks                 *)
(***************************************************************************)
FileSizes ==
    {k * ChunkSize + d : k \in 0..MaxChunks, d \in {0, 1, ChunkSize - 1}} \cup {10000}

FileOfSize(n) == [i \in 1..n |-> (i * i) % 251]

InitRead ==
    /\ segs = <<>>
    /\ cwd = <<"/">>
    /\ fs = [d \in Prefixes(segs) |-> NoEntry]
    /\ path = GivenPath
    /\ api_inode_id = kInodeIdApi
    /\ pathCall = [op |-> "none", err |-> "kSuccess", examined |-> <<>>]
    /\ is_open = TRUE
    /\ state = {}
    /\ content \in {FileOfSize(n) : n \in FileSizes}
    /\ send_test_hook = "NULL"
    /\ response \in {<<>>, <<7, 7, 7>>}
    /\ chanCall = NoChanCall
    /\ data = <<>>
    /\ maxSize \in {MaxChunks * ChunkSize, (MaxChunks + 1) * ChunkSize}
    /\ appended = <<>>
    /\ bufCall = NoCall
    /\ JsonIdle
    /\ ApiIdle

DoReadChunks ==
    \E env \in [step : ReadSteps, at : 1..(MaxChunks + 1), reply : {NoReply}] :
        LET r == ReadResponse(H, content, response, maxSize, env)
        IN  /\ state' = r.h.state
            /\ response' = r.response
            /\ chanCall' = Called("ReadResponse", r.err, r.events, NoStages, env)
            /\ UNCHANGED <<path, is_open, content, send_test_hook>>
            /\ UNCHANGED <<segs, cwd, fs, api_inode_id, pathCall, bufVars, jsonVars, apiVars>>

\* the caller hands in a buffer that holds something else
DoDirtyResponse ==
    /\ response' = <<7, 7, 7>>
    /\ chanCall' = [NoChanCall EXCEPT !.op = "dirty"]
    /\ UNCHANGED <<path, is_open, state, content, send_test_hook>>
    /\ UNCHANGED <<segs, cwd, fs, api_inode_id, pathCall, bufVars, jsonVars, apiVars>>

NextRead == DoReadChunks \/ DoClose \/ DoOpen \/ DoDirtyResponse

SpecRead == InitRead /\ [][NextRead]_vars

(***************************************************************************)
(* CheckCommonApiResponse.  A response is a JSON text and the size of the  *)
(* buffer that holds it; the texts have no duplicate member names and      *)
(* nothing after the value, so only two of jansson's decoding flags bear   *)
(* on them.                                                                *)
(***************************************************************************)
kErrorCode == "ErrorCode"

kMessage == "Message"

kCmdOk == 0

JSON_DECODE_ANY == 4

JSON_DECODE_INT_AS_REAL == 8

HasFlag(flags, bit) == (flags \div bit) % 2 = 1

Scalar(type, int) == Json(type, int, <<>>)

\* the values a member of the response is given
MemberValues ==
    {Scalar("integer", 0), Scalar("integer", 5), Scalar("real", 0), Scalar("string", 0),
     Scalar("true", 0), Scalar("null", 0)}

Objects ==
    UNION {[names -> MemberValues] : names \in SUBSET {kErrorCode, kMessage}}

TopValues ==
    {Json("object", 0, f) : f \in Objects} \cup {Json("array", 0, <<>>)} \cup MemberValues

Docs ==
    {[wellformed |-> TRUE, value |-> v, size |-> n] : v \in TopValues, n \in {29, 32, 36, 40}}
    \cup {[wellformed |-> FALSE, value |-> NullJson, size |-> n] : n \in {29, 32}}

\* every integer of the value, at any depth, becomes a real
RECURSIVE IntAsReal(_)
IntAsReal(v) ==
    IF v.type = "integer" THEN [v EXCEPT !.type = "real"]
    ELSE IF v.type = "object"
    THEN [v EXCEPT !.fields = [n \in DOMAIN v.fields |-> IntAsReal(v.fields[n])]]
    ELSE v

\* the value as jansson decodes it under the flags
Decoded(v, flags) ==
    IF ~HasFlag(flags, JSON_DECODE_INT_AS_REAL) THEN v ELSE IntAsReal(v)

json_loadsDecodeAny(d, flags) ==
    IF ~d.wellformed THEN NullJson ELSE Decoded(d.value, flags)

\* json_loads(input, flags, error): NULL for a text that is not JSON, and
\* for one that is neither an object nor an array unless JSON_DECODE_ANY
json_loads(d, flags) ==
    IF ~d.wellformed THEN NullJson
    ELSE IF d.value.type \notin {"object", "array"} /\ ~HasFlag(flags, JSON_DECODE_ANY)
    THEN NullJson
    ELSE Decoded(d.value, flags)

\* json_object_get: NULL when json is no object or has no such member
json_object_get(json, key) ==
    IF json.type = "object" /\ key \in DOMAIN json.fields THEN json.fields[key]
    ELSE NullJson

json_is_integer(json) == json.type = "integer"

json_integer_value(json) == IF json.type = "integer" THEN json.int ELSE 0

Verdict(code, field) == [code |-> code, field |-> field]

\* lines 339-359
CheckErrorCode(error_json_obj, message_json_obj) ==
    IF ~json_is_integer(error_json_obj) THEN Verdict("kJsonDecodingError", "none")
    ELSE IF json_integer_value(error_json_obj) # kCmdOk THEN Verdict("kApiError", "none")
    ELSE Verdict("kSuccess", "none")

CheckMembersIntegerFirst(response_json_obj) ==
    IF json_object_get(response_json_obj, kErrorCode) = NullJson
    THEN Verdict("kMissingJsonObject", kErrorCode)
    ELSE IF ~json_is_integer(json_object_get(response_json_obj, kErrorCode))
    THEN Verdict("kJsonDecodingError", "none")
    ELSE IF json_object_get(response_json_obj, kMessage) = NullJson
    THEN Verdict("kMissingJsonObject", kMessage)
    ELSE CheckErrorCode(json_object_get(response_json_obj, kErrorCode),
                        json_object_get(response_json_obj, kMessage))

\* lines 325-337
CheckMembers(response_json_obj) ==
    IF json_object_get(response_json_obj, kErrorCode) = NullJson
    THEN Verdict("kMissingJsonObject", kErrorCode)
    ELSE IF json_object_get(response_json_obj, kMessage) = NullJson
    THEN Verdict("kMissingJsonObject", kMessage)
    ELSE CheckErrorCode(json_object_get(response_json_obj, kErrorCode),
                        json_object_get(response_json_obj, kMessage))

\* lines 304-323: json_unpack_ex with format "o" takes any value as it is
CheckParsed(response_json) ==
    IF response_json = NullJson THEN Verdict("kJsonDecodingError", "none")
    ELSE CheckMembers(response_json)

\* the response's size is handed to json_loads as its flags (lines 298-300)
CheckCommonApiResponse(d) == CheckParsed(json_loads(d, d.size))

InitJson ==
    /\ doc \in Docs
    /\ context = NullJson
    /\ jsonCall = NoJsonCall
    /\ ApiIdle
    /\ segs = <<>>
    /\ cwd = <<"/">>
    /\ fs = [d \in Prefixes(segs) |-> NoEntry]
    /\ path = <<>>
    /\ api_inode_id = kInodeIdApi
    /\ pathCall = [op |-> "none", err |-> "kSuccess", examined |-> <<>>]
    /\ is_open = FALSE
    /\ state = {}
    /\ content = <<>>
    /\ send_test_hook = "NULL"
    /\ response = <<>>
    /\ chanCall = NoChanCall
    /\ data = <<>>
    /\ maxSize = MaxBufSize
    /\ appended = <<>>
    /\ bufCall = NoCall

DoCheckCommonApiResponse ==
    /\ context' = json_loads(doc, doc.size)
    /\ jsonCall' = [op |-> "CheckCommonApiResponse",
                    code |-> CheckCommonApiResponse(doc).code,
                    field |-> CheckCommonApiResponse(doc).field]
    /\ UNCHANGED <<doc, pathVars, chanVars, bufVars, apiVars>>

NextJson == DoCheckCommonApiResponse

SpecJson == InitJson /\ [][NextJson]_vars

(***************************************************************************)
(* CheckWorkspacePathValid                                                 *)
(***************************************************************************)
MaxWsLen == 5        \* workspace paths are up to MaxWsLen characters long

WsChars == {"a", "b", "c", "/"}

WorkspaceRoots == SeqsUpTo(WsChars, MaxWsLen)

npos == -1

\* std::string::find(ch, pos): the first index from pos on (counted from
\* 0) that holds ch
RECURSIVE find(_, _, _)
find(str, ch, pos) ==
    IF pos >= Len(str) THEN npos
    ELSE IF str[pos + 1] = ch THEN pos
    ELSE find(str, ch, pos + 1)

\* lines 285-290
CheckThird(str, second) ==
    IF find(str, "/", second + 1) # npos THEN "kWorkspacePathInvalid" ELSE "kSuccess"

\* lines 281-290
CheckSecond(str, first) ==
    IF find(str, "/", first + 1) = npos THEN "kWorkspacePathInvalid"
    ELSE CheckThird(str, find(str, "/", first + 1))

CheckWorkspacePathValidTwoOrMore(workspace_root) ==
    IF find(workspace_root, "/", 0) = npos THEN "kWorkspacePathInvalid"
    ELSE IF find(workspace_root, "/", find(workspace_root, "/", 0) + 1) = npos
    THEN "kWorkspacePathInvalid"
    ELSE "kSuccess"

CheckWorkspacePathValidOneOrTwo(workspace_root) ==
    IF find(workspace_root, "/", 0) = npos THEN "kWorkspacePathInvalid"
    ELSE IF find(workspace_root, "/", find(workspace_root, "/", 0) + 1) = npos
    THEN "kSuccess"
    ELSE CheckThird(workspace_root,
                    find(workspace_root, "/", find(workspace_root, "/", 0) + 1))

CheckWorkspacePathValid(workspace_root) ==
    IF find(workspace_root, "/", 0) = npos THEN "kWorkspacePathInvalid"
    ELSE CheckSecond(workspace_root, find(workspace_root, "/", 0))

InitWs ==
    /\ ApiIdle
    /\ doc = NoDoc
    /\ context = NullJson
    /\ jsonCall = NoJsonCall
    /\ segs = <<>>
    /\ cwd = <<"/">>
    /\ fs = [d \in Prefixes(segs) |-> NoEntry]
    /\ path = <<>>
    /\ api_inode_id = kInodeIdApi
    /\ pathCall = [op |-> "none", err |-> "kSuccess", examined |-> <<>>]
    /\ is_open = FALSE
    /\ state = {}
    /\ content = <<>>
    /\ send_test_hook = "NULL"
    /\ response = <<>>
    /\ chanCall = NoChanCall
    /\ data = <<>>
    /\ maxSize = MaxBufSize
    /\ appended = <<>>
    /\ bufCall = NoCall

\* the function keeps no state: one call per behaviour covers it
DoCheckWorkspacePathValid ==
    \E workspace_root \in WorkspaceRoots :
        /\ ApiIdle
        /\ apiCall' = [NoApiCall EXCEPT !.op = "CheckWorkspacePathValid",
                                        !.root = workspace_root,
                                        !.err = CheckWorkspacePathValid(workspace_root)]
        /\ UNCHANGED <<bufVars, pathVars, chanVars, jsonVars>>

NextWs == DoCheckWorkspacePathValid

SpecWs == InitWs /\ [][NextWs]_vars

(***************************************************************************)
(* SendJson and GetAccessed.  A text is a sequence of bytes: a serialised  *)
(* request is its characters, all non-zero; a response is the number of    *)
(* its value (ReplyValue), blanks, and the terminator.                     *)
(***************************************************************************)
kAccessList == "AccessList"

Files == {"a.txt", "b.txt"}

\* the value of a file's entry in an AccessList: none, true, false, a string
Entry(k) ==
    CASE k = 1 -> Scalar("true", 0)
      [] k = 2 -> Scalar("false", 0)
      [] OTHER -> Scalar("string", 0)

\* the n-th AccessList, n in 0..15: two digits to base 4, one for each file
AccessList(n) ==
    [f \in {g \in Files : (IF g = "a.txt" THEN n % 4 ELSE n \div 4) # 0} |->
        Entry(IF f = "a.txt" THEN n % 4 ELSE n \div 4)]

\* the members of a response: ErrorCode, Message and the payload
Members(code, payload) ==
    [n \in {kErrorCode, kMessage} \cup DOMAIN payload |->
        IF n = kErrorCode THEN Scalar("integer", code)
        ELSE IF n = kMessage THEN Scalar("string", 0)
        ELSE payload[n]]

Payload(value) == [n \in {kAccessList} |-> value]

NoPayload == [n \in {} |-> NullJson]

LastReply == 20

\* the values the api file answers with, by number
ReplyValue(n) ==
    CASE n \in 0..15 -> Json("object", 0, Members(kCmdOk, Payload(Json("object", 0, AccessList(n)))))
      [] n = 16 -> Json("object", 0, Members(kCmdOk, Payload(Json("array", 0, <<>>))))
      [] n = 17 -> Json("object", 0, Members(kCmdOk, NoPayload))
      [] n = 18 -> Json("object", 0, Members(5, NoPayload))
      [] n = 19 -> Json("object", 0, Members(5, Payload(Json("object", 0, NoPayload))))
      [] OTHER -> Json("array", 0, <<>>)

Blank == 32

FirstReply == 100

\* the text of the n-th value, size bytes long
ReplyText(n, size) == <<FirstReply + n>> \o [i \in 1..(size - 2) |-> Blank] \o <<0>>

\* no JSON at all
Garbage(size) == <<63>> \o [i \in 1..(size - 2) |-> Blank] \o <<0>>

\* every value in 32 bytes, and some in 40 bytes as well
ApiReplies ==
    {[keep |-> FALSE, bytes |-> ReplyText(n, 32)] : n \in 0..LastReply}
    \cup {[keep |-> FALSE, bytes |-> ReplyText(n, 40)] : n \in {6, 18}}
    \cup {[keep |-> FALSE, bytes |-> Garbage(32)], NoReply}

\* the request built by json_pack_ex with "{s:i,s:s}"
json_pack_ex(workspace_root) ==
    [CommandId |-> "kCmdGetAccessed", WorkspaceRoot |-> workspace_root]

\* the characters of {"CommandId":N,"WorkspaceRoot":""} for a command
\* number N of one digit
RequestOverhead == 34

\* json_dumps with JSON_COMPACT | JSON_SORT_KEYS: the characters of the text
json_dumps(request_json) ==
    [i \in 1..(RequestOverhead + Len(request_json.WorkspaceRoot)) |-> 1]

IsRequestText(bytes) ==
    /\ Len(bytes) > RequestOverhead
    /\ bytes[Len(bytes)] = 0
    /\ \A i \in 1..(Len(bytes) - 1) : bytes[i] = 1

IsReplyText(bytes) ==
    /\ Len(bytes) >= 2
    /\ bytes[1] \in FirstReply..(FirstReply + LastReply)
    /\ bytes[Len(bytes)] = 0
    /\ \A i \in 2..(Len(bytes) - 1) : bytes[i] = Blank

RequestValue ==
    Json("object", 0, [n \in {"CommandId", "WorkspaceRoot"} |->
                          IF n = "CommandId" THEN Scalar("integer", 1)
                          ELSE Scalar("string", 0)])

\* the response as json_loads reads it: its text and the size of the buffer
Parsed(bytes) ==
    IF IsReplyText(bytes)
    THEN [wellformed |-> TRUE, value |-> ReplyValue(bytes[1] - FirstReply),
          size |-> Len(bytes)]
    ELSE IF IsRequestText(bytes)
    THEN [wellformed |-> TRUE, value |-> RequestValue, size |-> Len(bytes)]
    ELSE [wellformed |-> FALSE, value |-> NullJson, size |-> Len(bytes)]

\* the limits of the two buffers of SendJson: memory is short when the
\* environment makes the copy or the append fail
CommandCap(request_json, env) ==
    IF env.step = "copy" THEN Len(json_dumps(request_json))
    ELSE Len(json_dumps(request_json)) + 1

ResponseCap(env) == IF env.step = "append" THEN 0 ELSE 64

\* lines 385-390
SendJsonDone(c, s, d) ==
    [h |-> s.h, content |-> s.content,
     err |-> CheckCommonApiResponse(d).code, field |-> CheckCommonApiResponse(d).field,
     stages |-> <<"json_dumps", "CopyString", "SendCommand", "CheckCommonApiResponse">>,
     events |-> s.events, chan |-> s.stages, copy |-> c.err,
     doc |-> d, context |-> json_loads(d, d.size)]

\* lines 380-390
SendJsonChecked(c, s) ==
    IF s.err # "kSuccess"
    THEN [h |-> s.h, content |-> s.content, err |-> s.err, field |-> "none",
          stages |-> <<"json_dumps", "CopyString", "SendCommand">>,
          events |-> s.events, chan |-> s.stages, copy |-> c.err,
          doc |-> NoDoc, context |-> NullJson]
    ELSE SendJsonDone(c, s, Parsed(s.response))

\* lines 374-390: what CopyString returns is not looked at
SendJsonCopied(c, h, w, env) ==
    SendJsonChecked(c, SendCommand(h, w.bytes, c.data, <<>>, ResponseCap(env), w.hook,
                                   w.getcwd, w.filesys, w.inode, env))

SendJson(h, w, request_json, env) ==
    SendJsonCopied(CopyString(<<>>, json_dumps(request_json) \o <<0>>,
                              CommandCap(request_json, env)),
                   h, w, env)

json_is_boolean(json) == json.type \in {"true", "false"}

json_is_true(json) == json.type = "true"

\* json_object_foreach: the members of an object, none for any other value
AccessedMap(accessed_list_json_obj) ==
    IF accessed_list_json_obj.type # "object" THEN [k \in {} |-> FALSE]
    ELSE [k \in {n \in DOMAIN accessed_list_json_obj.fields :
                    json_is_boolean(accessed_list_json_obj.fields[n])} |->
             json_is_true(accessed_list_json_obj.fields[k])]

PrepareAccessedListResponseStrict(response_json) ==
    IF json_object_get(response_json, kAccessList) = NullJson
    THEN [err |-> "kMissingJsonObject", accessed |-> [k \in {} |-> FALSE]]
    ELSE IF \E n \in DOMAIN json_object_get(response_json, kAccessList).fields :
               ~json_is_boolean(json_object_get(response_json, kAccessList).fields[n])
    THEN [err |-> "kJsonDecodingError", accessed |-> [k \in {} |-> FALSE]]
    ELSE [err |-> "kSuccess",
          accessed |-> AccessedMap(json_object_get(response_json, kAccessList))]

PrepareAccessedListResponse(response_json) ==
    IF json_object_get(response_json, kAccessList) = NullJson
    THEN [err |-> "kMissingJsonObject", accessed |-> [k \in {} |-> FALSE]]
    ELSE [err |-> "kSuccess",
          accessed |-> AccessedMap(json_object_get(response_json, kAccessList))]

\* the keys of the map with value flag, in the order ord visits them
RECURSIVE Listed(_, _, _)
Listed(accessed, ord, flag) ==
    IF ord = <<>> THEN <<>>
    ELSE (IF Head(ord) \in DOMAIN accessed /\ accessed[Head(ord)] = flag
          THEN <<Head(ord)>> ELSE <<>>) \o Listed(accessed, Tail(ord), flag)

kCreated == "------ Created Files ------"

kAccessed == "------ Accessed Files ------"

\* the lines of the result; ord is the order in which the unordered_map
\* is visited
FormatAccessedList(accessed, ord) ==
    <<kCreated>> \o Listed(accessed, ord, TRUE) \o <<kAccessed>>
    \o Listed(accessed, ord, FALSE)

Orders == {o \in SeqsUpTo(Files, Cardinality(Files)) :
              Len(o) = Cardinality(Files) /\ {o[i] : i \in 1..Len(o)} = Files}

Stopped(h, w, err, stages) ==
    [h |-> h, content |-> w.bytes, err |-> err, field |-> "none", stages |-> stages,
     events |-> <<>>, chan |-> NoStages, copy |-> "notrun", doc |-> NoDoc,
     context |-> NullJson, out |-> <<>>]

Returned(j, err, field, more, out) ==
    [h |-> j.h, content |-> j.content, err |-> err, field |-> field,
     stages |-> <<"CheckWorkspacePathValid", "json_pack_ex">> \o j.stages \o more,
     events |-> j.events, chan |-> j.chan, copy |-> j.copy, doc |-> j.doc,
     context |-> j.context, out |-> out]

\* lines 422-431
GetAccessedPrepared(j, p, ord) ==
    IF p.err # "kSuccess"
    THEN Returned(j, p.err, kAccessList, <<"PrepareAccessedListResponse">>, <<>>)
    ELSE Returned(j, "kSuccess", "none",
                  <<"PrepareAccessedListResponse", "FormatAccessedList", "printf">>,
                  FormatAccessedList(p.accessed, ord))

GetAccessedSentIgnoresError(j, ord) ==
    GetAccessedPrepared(j, PrepareAccessedListResponse(j.context), ord)

\* lines 414-431
GetAccessedSent(j, ord) ==
    IF j.err # "kSuccess" THEN Returned(j, j.err, j.field, <<>>, <<>>)
    ELSE GetAccessedPrepared(j, PrepareAccessedListResponse(j.context), ord)

GetAccessed(h, w, workspace_root, ord, env) ==
    IF CheckWorkspacePathValid(workspace_root) # "kSuccess"
    THEN Stopped(h, w, "kWorkspacePathInvalid", <<"CheckWorkspacePathValid">>)
    ELSE IF env.step = "pack"
    THEN Stopped(h, w, "kJsonEncodingError", <<"CheckWorkspacePathValid", "json_pack_ex">>)
    ELSE GetAccessedSent(SendJson(h, w, json_pack_ex(workspace_root), env), ord)

World == [bytes |-> content, hook |-> send_test_hook, getcwd |-> cwd, filesys |-> fs,
          inode |-> api_inode_id]

ApiRoots == {<<>>, <<"a", "/", "b">>, <<"a", "/", "b", "/", "c">>, <<"/", "/", "/">>}

ApiSteps == SendSteps \cup {"pack", "copy", "append"}

FirstOrder == CHOOSE o \in Orders : TRUE

\* the calls: a path that is not valid; a valid one with a failing step and
\* the api file left as it is, or with no failing step and any reply
ApiCalls ==
    {c \in [root : ApiRoots, env : Envs(ApiSteps, ApiReplies), ord : Orders] :
        /\ CheckWorkspacePathValid(c.root) # "kSuccess" =>
               (c.env.step = "none" /\ c.env.reply = NoReply /\ c.ord = FirstOrder)
        /\ c.env.step \notin {"none", "copy"} =>
               (c.env.reply = NoReply /\ c.ord = FirstOrder)}

InitApi ==
    /\ segs = <<>>
    /\ cwd = <<"/">>
    /\ fs = [d \in Prefixes(segs) |-> [kind |-> "reg", ino |-> kInodeIdApi]]
    /\ path = GivenPath
    /\ api_inode_id = kInodeIdApi
    /\ pathCall = [op |-> "none", err |-> "kSuccess", examined |-> <<>>]
    \* the handle as earlier calls leave it: not open, or open after an
    \* exchange, with the api file empty or holding the last response
    /\ is_open \in BOOLEAN
    /\ state = {}
    /\ content \in {<<>>, ReplyText(6, 32)}
    /\ send_test_hook \in {"NULL", "hook"}
    /\ response = <<>>
    /\ chanCall = NoChanCall
    /\ data = <<>>
    /\ maxSize = MaxBufSize
    /\ appended = <<>>
    /\ bufCall = NoCall
    /\ JsonIdle
    /\ ApiIdle

\* one call is followed from each of these handles
DoGetAccessed ==
    \E c \in ApiCalls :
        LET r == GetAccessed(H, World, c.root, c.ord, c.env)
        IN  /\ Alive
            /\ ApiIdle
            /\ path' = r.h.path
            /\ is_open' = r.h.is_open
            /\ state' = r.h.state
            /\ content' = r.content
            /\ chanCall' = Called("GetAccessed", r.err, r.events, r.chan, c.env)
            /\ doc' = r.doc
            /\ context' = r.context
            /\ jsonCall' = IF \A i \in 1..Len(r.stages) : r.stages[i] # "CheckCommonApiResponse"
                           THEN NoJsonCall
                           ELSE [op |-> "CheckCommonApiResponse",
                                 code |-> CheckCommonApiResponse(r.doc).code,
                                 field |-> CheckCommonApiResponse(r.doc).field]
            /\ apiCall' = [op |-> "GetAccessed", root |-> c.root, err |-> r.err,
                           stages |-> r.stages, out |-> r.out, copy |-> r.copy,
                           field |-> r.field]
            /\ UNCHANGED <<response, send_test_hook>>
            /\ UNCHANGED <<segs, cwd, fs, api_inode_id, pathCall, bufVars>>

NextApi == DoGetAccessed

SpecApi == InitApi /\ [][NextApi]_vars

Next ==
    DoOpen \/ DoClose \/ DoWriteCommand \/ DoReadResponse \/ DoSendCommand \/ Chdir
    \/ DoDestroy

Spec == InitHandle /\ [][Next]_vars

NextBuf == DoReset \/ DoAppend \/ DoCopyString

SpecBuf == InitBuf /\ [][NextBuf]_vars

(***************************************************************************)
(* Claims about DeterminePath                                              *)
(***************************************************************************)
Dir(k) == SubSeq(segs, 1, k)

\* the level-k directory holds a regular file or symlink "api" of the
\* expected inode
Matches(k) ==
    /\ fs[Dir(k)].kind \in {"reg", "lnk"}
    /\ fs[Dir(k)].ino = api_inode_id

\* "<dir>/api" for the level-k directory
Candidate(k) == CwdString(Dir(k)) \o <<"/">> \o kApiPath

\* C2: when DeterminePath succeeds the recorded path is <dir>/api for the
\* nearest directory, from the working directory up, whose entry "api" is a
\* regular file or symlink of the expected inode; entries of another inode
\* or another type (a directory of the expected inode too) are passed over.
C2_NearestTrueApiFile ==
    (pathCall.op = "DeterminePath" /\ pathCall.err = "kSuccess") =>
        \E k \in 0..Len(segs) :
            /\ path = Candidate(k)
            /\ Matches(k)
            /\ \A j \in (k + 1)..Len(segs) : ~Matches(j)

C2_Witness ==
    /\ pathCall.op = "DeterminePath"
    /\ pathCall.err = "kSuccess"
    /\ Len(segs) = 2
    /\ fs[Dir(2)] = [kind |-> "reg", ino |-> kInodeIdApi + 1]
    /\ fs[Dir(1)] = [kind |-> "dir", ino |-> kInodeIdApi]
    /\ Matches(0)
    /\ path = <<"/", "/">> \o kApiPath

\* C3: when no level from the working directory to the root matches,
\* DeterminePath has examined each level once, nearest first and the root
\* last, returns kCantFindApiFile and leaves the path empty.
C3_NoMatchWalksToRoot ==
    (pathCall.op = "DeterminePath" /\ cwd # <<>> /\ \A k \in 0..Len(segs) : ~Matches(k)) =>
        /\ pathCall.err = "kCantFindApiFile"
        /\ path = <<>>
        /\ pathCall.examined = [i \in 1..(Len(segs) + 1) |-> Candidate(Len(segs) + 1 - i)]

C3_Witness ==
    /\ pathCall.op = "DeterminePath"
    /\ pathCall.err = "kCantFindApiFile"
    /\ Len(segs) = MaxDepth
    /\ Len(pathCall.examined) = MaxDepth + 1
    /\ \A k \in 0..Len(segs) : fs[Dir(k)].kind # "none"

(***************************************************************************)
(* Claims about the handle                                                 *)
(***************************************************************************)
Rank(e) ==
    CASE e = "DeterminePath" -> 0
      [] e = "open" -> 1
      [] e = "seekp" -> 2
      [] e = "write" -> 3
      [] e = "flush" -> 4
      [] e = "hook" -> 5
      [] e = "seekg" -> 6
      [] e = "read" -> 7
      [] OTHER -> 8

HasEvent(call, e) == \E i \in 1..Len(call.events) : call.events[i] = e

ReadEvents == {"seekg", "read"}

\* C1: a SendCommand runs Open, WriteCommand (seek, write, flush), the test
\* hook if there is one, ReadResponse, in that order; the control file is
\* read only after this command's seek, write and flush all succeeded; when
\* Open, WriteCommand or the hook fails, that error is returned and the
\* control file is not read.
C1_SendCommandStages ==
    chanCall.op = "SendCommand" =>
        LET ev == chanCall.events
            st == chanCall.stages
        IN  /\ \A i, j \in 1..Len(ev) :
                   i < j => \/ Rank(ev[i]) < Rank(ev[j])
                            \/ ev[i] = "read" /\ ev[j] = "read"
            /\ (\E e \in ReadEvents : HasEvent(chanCall, e)) =>
                   /\ st.open = "kSuccess"
                   /\ st.write = "kSuccess"
                   /\ \A e \in {"seekp", "write", "flush"} : HasEvent(chanCall, e)
                   /\ st.hook \in {NotRun, "kSuccess"}
                   /\ st.hook = "kSuccess" <=> HasEvent(chanCall, "hook")
                   /\ chanCall.err = st.read
            /\ st.open # "kSuccess" =>
                   /\ chanCall.err = st.open
                   /\ \A i \in 1..Len(ev) : ev[i] \in {"DeterminePath", "open"}
            /\ (st.open = "kSuccess" /\ st.write # "kSuccess") =>
                   /\ chanCall.err = st.write
                   /\ \A e \in ReadEvents \cup {"hook"} : ~HasEvent(chanCall, e)
            /\ (st.write = "kSuccess" /\ st.hook \notin {NotRun, "kSuccess"}) =>
                   /\ chanCall.err = st.hook
                   /\ \A e \in ReadEvents : ~HasEvent(chanCall, e)
            /\ (st.write = "kSuccess" /\ st.hook \in {NotRun, "kSuccess"}) =>
                   /\ HasEvent(chanCall, "seekg")
                   /\ (send_test_hook # "NULL") <=> HasEvent(chanCall, "hook")

C1_Witness ==
    /\ chanCall.op = "SendCommand"
    /\ chanCall.err = "kSuccess"
    /\ chanCall.events =
           <<"DeterminePath", "open", "seekp", "write", "flush", "hook", "seekg", "read">>

\* C4: once the path is not empty no call changes it, and no call runs the
\* path resolution again.
C4_PathNeverChanges ==
    [][path # <<>> => (path' = path /\ ~HasEvent(chanCall', "DeterminePath"))]_vars

C4_Witness ==
    /\ chanCall.op = "SendCommand"
    /\ chanCall.err = "kSuccess"
    /\ chanCall.events = <<"open", "seekp", "write", "flush", "seekg", "read">>
    /\ segs = <<>>
    /\ Matches(0)
    /\ path = <<"/", "d", "/">> \o kApiPath

\* C5: after a ReadResponse that returned kSuccess (it read to the end of
\* the stream) no eofbit, failbit or badbit is set, and the SendCommand that
\* follows a successful exchange succeeds whenever the environment fails no
\* step of it and the answer fits the buffer.
C5_StreamUsableAfterExchange ==
    /\ Exchanged(chanCall) => state = {}
    /\ ( /\ chanCall.op = "SendCommand"
         /\ chanCall.afterExchange
         /\ chanCall.step = "none"
         /\ Len(content) <= maxSize ) => chanCall.err = "kSuccess"

C5_Witness ==
    /\ chanCall.op = "SendCommand"
    /\ chanCall.afterExchange
    /\ chanCall.err = "kSuccess"
    /\ chanCall.events = <<"seekp", "write", "flush", "seekg", "read">>
    /\ response = content
    /\ Len(response) = MaxBufSize

FileEvents == {"seekp", "write", "flush", "seekg", "read"}

\* C18: WriteCommand and ReadResponse on a handle whose file is not open
\* return kApiFileNotOpen and do no seek, write, flush or read: the stream
\* and the api file stay as they are, and so does the caller's buffer.
C18_NotOpenDoesNothing ==
    [][(~is_open /\ chanCall'.op \in {"WriteCommand", "ReadResponse"}) =>
          /\ chanCall'.err = "kApiFileNotOpen"
          /\ \A e \in FileEvents : ~HasEvent(chanCall', e)
          /\ state' = state
          /\ content' = content
          /\ response' = response]_vars

C18_Witness ==
    /\ chanCall.op = "ReadResponse"
    /\ chanCall.err = "kApiFileNotOpen"
    /\ ~is_open
    /\ response # <<>>
    /\ fail(state)

\* C19: after Close and after the destructor the stream is closed, whatever
\* came before; on a handle that is not open they change nothing, so
\* further calls of Close leave the state of the first.
C19_CloseCloses ==
    [][chanCall'.op \in {"Close", "~ApiImpl"} =>
          /\ ~is_open'
          /\ path' = path /\ content' = content /\ response' = response
          /\ ~is_open => (state' = state /\ chanCall'.events = <<>>)]_vars

C19_Witness ==
    /\ chanCall.op = "~ApiImpl"
    /\ chanCall.events = <<"close">>
    /\ ~is_open
    /\ fail(state)

\* C20: Open resolves the path only when the handle has none; a failed
\* resolution is returned and no file is opened; an open file is not opened
\* again and Open returns kSuccess; a failed open returns kCantOpenApiFile
\* and leaves the handle not open.
C20_Open ==
    [][chanCall'.op = "Open" =>
          /\ HasEvent(chanCall', "DeterminePath") <=> path = <<>>
          /\ (path = <<>> /\ path' = <<>>) =>
                 /\ chanCall'.err \in {"kDontKnowCwd", "kCantFindApiFile"}
                 /\ ~HasEvent(chanCall', "open")
                 /\ is_open' = is_open /\ state' = state
          /\ is_open =>
                 /\ chanCall'.err = "kSuccess"
                 /\ ~HasEvent(chanCall', "open")
                 /\ is_open' /\ state' = state
          /\ (~is_open /\ path' # <<>>) =>
                 /\ HasEvent(chanCall', "open")
                 /\ chanCall'.err \in {"kSuccess", "kCantOpenApiFile"}
                 /\ chanCall'.err = "kSuccess" <=> is_open'
                 /\ chanCall'.err = "kCantOpenApiFile" <=> chanCall'.step = "open"]_vars

C20_Witness ==
    /\ chanCall.op = "Open"
    /\ chanCall.err = "kCantOpenApiFile"
    /\ chanCall.events = <<"DeterminePath", "open">>
    /\ ~is_open
    /\ path # <<>>

\* C21: on an open handle WriteCommand seeks to 0, writes the whole buffer
\* and flushes, in this order; the first of the three that fails gives
\* kApiFileSeekFail, kApiFileWriteFail or kApiFileFlushFail and the later
\* ones are not attempted; kSuccess is returned only when all three
\* succeeded, and the api file then starts with the command.
C21_WriteCommandSteps ==
    [][(is_open /\ chanCall'.op = "WriteCommand") =>
          /\ chanCall'.err \in {"kApiFileSeekFail", "kApiFileWriteFail",
                                "kApiFileFlushFail", "kSuccess"}
          /\ chanCall'.err = "kApiFileSeekFail" <=> chanCall'.events = <<"seekp">>
          /\ chanCall'.err = "kApiFileWriteFail" <=> chanCall'.events = <<"seekp", "write">>
          /\ chanCall'.err \in {"kApiFileFlushFail", "kSuccess"} <=>
                 chanCall'.events = <<"seekp", "write", "flush">>
          /\ chanCall'.err = "kSuccess" <=> ~fail(state')
          /\ chanCall'.err = "kSuccess" =>
                 \E command \in Commands : content' = Overwrite(content, 0, command)
          /\ chanCall'.err \in {"kApiFileSeekFail", "kApiFileWriteFail"} =>
                 content' = content
          /\ good(state) =>
                 chanCall'.err = CASE chanCall'.step = "seekp" -> "kApiFileSeekFail"
                                   [] chanCall'.step = "write" -> "kApiFileWriteFail"
                                   [] chanCall'.step = "flush" -> "kApiFileFlushFail"
                                   [] OTHER -> "kSuccess"]_vars

C21_Witness ==
    /\ chanCall.op = "WriteCommand"
    /\ chanCall.err = "kApiFileWriteFail"
    /\ chanCall.events = <<"seekp", "write">>
    /\ chanCall.step = "write"
    /\ is_open

StreamErrors ==
    {"kApiFileSeekFail", "kApiFileWriteFail", "kApiFileFlushFail", "kApiFileReadFail"}

\* the handle is open and its stream is failed
Stuck == is_open /\ fail(state)

\* C22: a WriteCommand or ReadResponse that returns a seek, write, flush or
\* read failure, or a ReadResponse that returns kBufferTooBig at the end of
\* the stream, leaves the handle open and its stream failed; from then on
\* every SendCommand returns kApiFileSeekFail, and the failure goes only
\* when the handle is closed (and opened again).
C22_FailureSticks ==
    [][/\ ( /\ is_open
            /\ \/ chanCall'.op \in {"WriteCommand", "ReadResponse"}
                  /\ chanCall'.err \in StreamErrors
               \/ chanCall'.op = "ReadResponse" /\ chanCall'.err = "kBufferTooBig" )
          => (is_open' /\ fail(state'))
       /\ (Stuck /\ chanCall'.op = "SendCommand") =>
              /\ chanCall'.err = "kApiFileSeekFail"
              /\ chanCall'.events = <<"seekp">>
              /\ is_open' /\ fail(state')
       /\ (Stuck /\ ~(is_open' /\ fail(state'))) =>
              (chanCall'.op \in {"Close", "~ApiImpl"} /\ ~is_open')
       /\ (fail(state) /\ ~fail(state')) =>
              (~is_open /\ is_open' /\ HasEvent(chanCall', "open"))]_vars

C22_Witness ==
    /\ chanCall.op = "SendCommand"
    /\ chanCall.err = "kApiFileSeekFail"
    /\ chanCall.events = <<"seekp">>
    /\ chanCall.step = "none"
    /\ is_open
    /\ "badbit" \in state

\* C6: a ReadResponse that returns kSuccess leaves in the output buffer the
\* bytes of the api file from offset 0 to its end, in order, and nothing
\* else, for files of 0 bytes, of less than a chunk, of whole chunks and of
\* several chunks, whatever the buffer held before.
C6_ReadResponseWholeFile ==
    (chanCall.op = "ReadResponse" /\ chanCall.err = "kSuccess") =>
        /\ Size(response) = Len(content)
        /\ Data(response) = content

C6_Witness ==
    /\ chanCall.op = "ReadResponse"
    /\ chanCall.err = "kSuccess"
    /\ Len(content) = MaxChunks * ChunkSize
    /\ chanCall.events = <<"seekg">> \o [i \in 1..(MaxChunks + 1) |-> "read"]
    /\ response = content

(***************************************************************************)
(* Claims about CheckCommonApiResponse                                     *)
(***************************************************************************)
Has(json, name) == json.type = "object" /\ name \in DOMAIN json.fields

\* C10: a parsed response without ErrorCode or without Message, or whose
\* ErrorCode is no integer, is never kApiError or kSuccess: a missing member
\* gives kMissingJsonObject naming it, ErrorCode before Message, and Message
\* also when ErrorCode is no integer or not 0; an ErrorCode that is no
\* integer, with both members there, gives kJsonDecodingError.
C10_ProtocolViolation ==
    (jsonCall.op = "CheckCommonApiResponse" /\ context # NullJson) =>
        /\ ~Has(context, kErrorCode) =>
               jsonCall.code = "kMissingJsonObject" /\ jsonCall.field = kErrorCode
        /\ (Has(context, kErrorCode) /\ ~Has(context, kMessage)) =>
               jsonCall.code = "kMissingJsonObject" /\ jsonCall.field = kMessage
        /\ ( /\ Has(context, kErrorCode)
             /\ Has(context, kMessage)
             /\ context.fields[kErrorCode].type # "integer" ) =>
               jsonCall.code = "kJsonDecodingError"
        /\ ( \/ ~Has(context, kErrorCode)
             \/ ~Has(context, kMessage)
             \/ context.fields[kErrorCode].type # "integer" ) =>
               jsonCall.code \notin {"kApiError", "kSuccess"}

C10_Witness ==
    /\ jsonCall.op = "CheckCommonApiResponse"
    /\ Has(context, kErrorCode)
    /\ context.fields[kErrorCode].type = "string"
    /\ ~Has(context, kMessage)
    /\ jsonCall.code = "kMissingJsonObject"
    /\ jsonCall.field = kMessage

IsScalar(json) == json.type \notin {"object", "array", "NULL"}

\* C11 as stated: every response that is JSON but no object (an array, a
\* string, a number, true, false, null) yields kMissingJsonObject naming
\* the missing member.
C11_NonObjectAlwaysMissing ==
    ( /\ jsonCall.op = "CheckCommonApiResponse"
      /\ doc.wellformed
      /\ doc.value.type # "object" ) =>
        jsonCall.code = "kMissingJsonObject" /\ jsonCall.field \in {kErrorCode, kMessage}

\* C11, amended: an array yields kMissingJsonObject naming ErrorCode; a
\* string, number, true, false or null does so only when the size of the
\* response, which json_loads is handed as its flags, has the
\* JSON_DECODE_ANY bit, and yields kJsonDecodingError otherwise.
C11_NonObject ==
    ( /\ jsonCall.op = "CheckCommonApiResponse"
      /\ doc.wellformed
      /\ doc.value.type # "object" ) =>
        IF doc.value.type = "array" \/ HasFlag(doc.size, JSON_DECODE_ANY)
        THEN jsonCall.code = "kMissingJsonObject" /\ jsonCall.field = kErrorCode
        ELSE jsonCall.code = "kJsonDecodingError"

C11_Witness ==
    /\ jsonCall.op = "CheckCommonApiResponse"
    /\ doc.wellformed
    /\ IsScalar(doc.value)
    /\ ~HasFlag(doc.size, JSON_DECODE_ANY)
    /\ jsonCall.code = "kJsonDecodingError"

\* the response text is an object with a Message and an integer ErrorCode
Envelope(d) ==
    /\ d.wellformed
    /\ Has(d.value, kErrorCode)
    /\ Has(d.value, kMessage)
    /\ d.value.fields[kErrorCode].type = "integer"

\* C12: CheckCommonApiResponse returns kSuccess exactly for a response
\* that is an object with a Message and an integer ErrorCode of 0, and
\* kApiError exactly for one with both members and a non-zero integer
\* ErrorCode.
C12_SuccessAndApiErrorExactly ==
    jsonCall.op = "CheckCommonApiResponse" =>
        /\ jsonCall.code = "kSuccess" <=>
               (Envelope(doc) /\ doc.value.fields[kErrorCode].int = kCmdOk)
        /\ jsonCall.code = "kApiError" <=>
               (Envelope(doc) /\ doc.value.fields[kErrorCode].int # kCmdOk)

(***************************************************************************)
(* Claims about CheckWorkspacePathValid                                    *)
(***************************************************************************)
Slashes(str) == Cardinality({i \in 1..Len(str) : str[i] = "/"})

\* C13: CheckWorkspacePathValid returns kSuccess exactly for the strings
\* with exactly two '/' characters, and kWorkspacePathInvalid for every
\* string with none, one, or three or more.
C13_ExactlyTwoSeparators ==
    apiCall.op = "CheckWorkspacePathValid" =>
        /\ apiCall.err = "kSuccess" <=> Slashes(apiCall.root) = 2
        /\ apiCall.err = "kWorkspacePathInvalid" <=> Slashes(apiCall.root) # 2

C13_Witness ==
    /\ apiCall.op = "CheckWorkspacePathValid"
    /\ Slashes(apiCall.root) = 3
    /\ apiCall.err = "kWorkspacePathInvalid"

\* C14 as stated: "a/b" is accepted; "a", "a/b/c" and the empty string
\* are rejected with kWorkspacePathInvalid.
C14_AcceptsAB ==
    apiCall.op = "CheckWorkspacePathValid" =>
        /\ apiCall.root = <<"a", "/", "b">> => apiCall.err = "kSuccess"
        /\ apiCall.root \in {<<"a">>, <<"a", "/", "b", "/", "c">>, <<>>} =>
               apiCall.err = "kWorkspacePathInvalid"

\* C14, amended: "a/b/c" is accepted; "a", "a/b" and the empty string are
\* rejected with kWorkspacePathInvalid.
C14_AcceptsABC ==
    apiCall.op = "CheckWorkspacePathValid" =>
        /\ apiCall.root = <<"a", "/", "b", "/", "c">> => apiCall.err = "kSuccess"
        /\ apiCall.root \in {<<"a">>, <<"a", "/", "b">>, <<>>} =>
               apiCall.err = "kWorkspacePathInvalid"

C14_Witness ==
    /\ apiCall.op = "CheckWorkspacePathValid"
    /\ apiCall.root = <<"a", "/", "b">>
    /\ apiCall.err = "kWorkspacePathInvalid"

(***************************************************************************)
(* Claims about GetAccessed and SendJson                                   *)
(***************************************************************************)
AllStages ==
    <<"CheckWorkspacePathValid", "json_pack_ex", "json_dumps", "CopyString", "SendCommand",
      "CheckCommonApiResponse", "PrepareAccessedListResponse", "FormatAccessedList",
      "printf">>

Ran(call, stage) == \E i \in 1..Len(call.stages) : call.stages[i] = stage

\* what SendCommand returned: the first of its stages that did not succeed
SendErr(call) ==
    IF call.stages.open # "kSuccess" THEN call.stages.open
    ELSE IF call.stages.write # "kSuccess" THEN call.stages.write
    ELSE IF call.stages.hook \notin {"kSuccess", NotRun} THEN call.stages.hook
    ELSE call.stages.read

\* C15: GetAccessed validates the workspace path, sends the request,
\* decodes AccessList and prints, in this order; a path that is not valid
\* returns kWorkspacePathInvalid and the api file is not opened, written or
\* read; a failure of the send stage, kApiError for a non-zero ErrorCode
\* included, is returned, AccessList is not read and nothing is printed.
C15_GetAccessedStages ==
    [][apiCall'.op = "GetAccessed" =>
          /\ apiCall'.stages = SubSeq(AllStages, 1, Len(apiCall'.stages))
          /\ Slashes(apiCall'.root) # 2 =>
                /\ apiCall'.err = "kWorkspacePathInvalid"
                /\ apiCall'.stages = <<"CheckWorkspacePathValid">>
                /\ chanCall'.events = <<>>
                /\ is_open' = is_open /\ state' = state /\ content' = content
                /\ apiCall'.out = <<>>
          /\ (Ran(apiCall', "SendCommand") /\ SendErr(chanCall') # "kSuccess") =>
                /\ apiCall'.err = SendErr(chanCall')
                /\ ~Ran(apiCall', "CheckCommonApiResponse")
                /\ ~Ran(apiCall', "PrepareAccessedListResponse")
                /\ apiCall'.out = <<>>
          /\ (Ran(apiCall', "CheckCommonApiResponse") /\ jsonCall'.code # "kSuccess") =>
                /\ apiCall'.err = jsonCall'.code
                /\ ~Ran(apiCall', "PrepareAccessedListResponse")
                /\ apiCall'.out = <<>>
          /\ Ran(apiCall', "PrepareAccessedListResponse") =>
                (Ran(apiCall', "CheckCommonApiResponse") /\ jsonCall'.code = "kSuccess")
          /\ apiCall'.out # <<>> => apiCall'.err = "kSuccess"]_vars

C15_Witness ==
    /\ apiCall.op = "GetAccessed"
    /\ apiCall.err = "kApiError"
    /\ Has(context, kErrorCode)
    /\ context.fields[kErrorCode] = Scalar("integer", 5)
    /\ Has(context, kAccessList)
    /\ apiCall.stages = SubSeq(AllStages, 1, 6)
    /\ apiCall.out = <<>>

CountIn(seq, lo, hi, x) == Cardinality({i \in lo..hi : seq[i] = x})

IsTrue(al, k) == k \in DOMAIN al /\ al[k].type = "true"

IsFalse(al, k) == k \in DOMAIN al /\ al[k].type = "false"

\* the lines are: the created header, the keys of al with value true once
\* each, the accessed header at line i, the keys with value false once each
Partitioned(out, al, i) ==
    /\ out[1] = kCreated
    /\ out[i] = kAccessed
    /\ \A k \in Files :
          /\ CountIn(out, 2, i - 1, k) = IF IsTrue(al, k) THEN 1 ELSE 0
          /\ CountIn(out, i + 1, Len(out), k) = IF IsFalse(al, k) THEN 1 ELSE 0
    /\ Len(out) = 2 + Cardinality({k \in Files : IsTrue(al, k) \/ IsFalse(al, k)})

\* C16: when the response is a success and its AccessList an object, the
\* call succeeds and its output has every key with value true once in the
\* created section and every key with value false once in the accessed
\* section, the created section first; a key with any other value is in
\* neither section.
C16_AccessListPartition ==
    ( /\ apiCall.op = "GetAccessed"
      /\ jsonCall.code = "kSuccess"
      /\ jsonCall.op = "CheckCommonApiResponse"
      /\ Has(context, kAccessList)
      /\ context.fields[kAccessList].type = "object" ) =>
        /\ apiCall.err = "kSuccess"
        /\ \E i \in 2..Len(apiCall.out) :
              Partitioned(apiCall.out, context.fields[kAccessList].fields, i)

C16_Witness ==
    /\ apiCall.op = "GetAccessed"
    /\ apiCall.err = "kSuccess"
    /\ Has(context, kAccessList)
    /\ context.fields[kAccessList].type = "object"
    /\ DOMAIN context.fields[kAccessList].fields = Files
    /\ context.fields[kAccessList].fields["a.txt"].type = "string"
    /\ apiCall.out = <<kCreated, "b.txt", kAccessed>>

\* C17: in SendJson the first stage that fails ends the call and its error
\* is returned: a kBufferTooBig of the copy of the request into the command
\* buffer is returned and no command is written; a failed SendCommand is
\* returned and the response is not checked; a failed check is returned.
C17_FirstFailureReturned ==
    (apiCall.op = "GetAccessed" /\ Ran(apiCall, "CopyString")) =>
        /\ apiCall.copy # "kSuccess" =>
              /\ apiCall.err = apiCall.copy
              /\ ~Ran(apiCall, "SendCommand")
              /\ chanCall.events = <<>>
        /\ (apiCall.copy = "kSuccess" /\ SendErr(chanCall) # "kSuccess") =>
              /\ apiCall.err = SendErr(chanCall)
              /\ ~Ran(apiCall, "CheckCommonApiResponse")
        /\ ( /\ apiCall.copy = "kSuccess"
             /\ SendErr(chanCall) = "kSuccess"
             /\ jsonCall.code # "kSuccess" ) =>
              apiCall.err = jsonCall.code

(***************************************************************************)
(* Claims about the CommandBuffer                                          *)
(***************************************************************************)

\* C7: an Append whose block does not fit below the maximum size returns
\* kBufferTooBig and leaves the content and the size as before the call.
C7_AppendAllOrNothing ==
    (bufCall.op = "Append" /\ Len(bufCall.before) + Len(bufCall.arg) > maxSize)
        => /\ bufCall.err = "kBufferTooBig"
           /\ Data(data) = bufCall.before
           /\ Size(data) = Len(bufCall.before)

C7_Witness ==
    /\ bufCall.op = "Append"
    /\ bufCall.err = "kBufferTooBig"
    /\ bufCall.before # <<>>
    /\ Len(bufCall.before) < maxSize
    /\ Len(bufCall.arg) = MaxBlock

RECURSIVE SumLen(_)
SumLen(blocks) ==
    IF blocks = <<>> THEN 0 ELSE Len(Head(blocks)) + SumLen(Tail(blocks))

\* C8: the size is the number of bytes appended with success since the last
\* reset (Reset, or the one inside CopyString), the data is those blocks in
\* call order, and right after Reset the size is 0.
C8_SizeIsAppendedSinceReset ==
    /\ Size(data) = SumLen(appended)
    /\ Data(data) = Flatten(appended)
    /\ bufCall.op = "Reset" => Size(data) = 0

C8_Witness ==
    /\ bufCall.op = "Append"
    /\ bufCall.err = "kSuccess"
    /\ Len(appended) >= 2
    /\ \A i \in 1..Len(appended) : appended[i] # <<>>

\* the characters of the C string at mem: those before its first 0
CharsOf(mem) ==
    LET n == CHOOSE k \in 0..(Len(mem) - 1) :
                 mem[k + 1] = 0 /\ \A i \in 1..k : mem[i] # 0
    IN  SubSeq(mem, 1, n)

\* C9: a successful CopyString(s) leaves exactly the bytes of s and one
\* terminator 0, size length(s) + 1, nothing of the prior content; one that
\* does not fit returns kBufferTooBig, as Append does, on the cleared buffer.
C9_CopyStringExact ==
    bufCall.op = "CopyString" =>
        LET s == CharsOf(bufCall.arg)
        IN  IF Len(s) + 1 <= maxSize
            THEN /\ bufCall.err = "kSuccess"
                 /\ Data(data) = s \o <<0>>
                 /\ Size(data) = Len(s) + 1
            ELSE /\ bufCall.err = "kBufferTooBig"
                 /\ Size(data) = 0

C9_Witness ==
    /\ bufCall.op = "CopyString"
    /\ bufCall.err = "kSuccess"
    /\ bufCall.before # <<>>
    /\ Size(data) = MaxBlock + 1
    /\ Len(bufCall.arg) > Size(data)

====
